---------------------------- MODULE Spec2Model ----------------------------
(***************************************************************************)
(* Model of the quadmat test-fixture generators (src/gen): the sparse      *)
(* matrix generators, the multiply-problem assemblers that write a         *)
(* problem directory, and the drivers that seed the random source and call *)
(* the problem-group generators.                                           *)
(***************************************************************************)
EXTENDS Integers, Sequences, FiniteSets, TLC

VARIABLES
    call,    \* the call in progress / last made: a record with field fn
    ret,     \* what that call returned: a record
    files,   \* the file system: path <<dirname, filename>> |-> file content
    dirs,    \* the directories that exist (paths, as strings)
    rng,     \* numpy's global random source: [seeded, seed, draws]
    log      \* what a driver run has done so far: a sequence of records

vars == <<call, ret, files, dirs, rng, log>>

-----------------------------------------------------------------------------
(* Bounds of the model. *)

\* torus: dim in 0..MaxDim, n_axis in 1..MaxAxis
MaxDim == 2
MaxAxis == 3
\* Erdos-Renyi: m, n in 1..MaxM, nnn in 0..MaxNnn
MaxM == 2
MaxNnn == 3
\* permutation: n in 0..MaxPermN
MaxPermN == 3
\* submatrix extraction: shape in (0..MaxSubN)^2, divisor in 1..MaxDiv,
\* the extracted-from matrix has at most MaxMNnz stored entries
MaxSubN == 4
MaxDiv == 3
MaxMNnz == 2
\* assembler: at most MaxCalls calls in one run
MaxCalls == 2
\* drivers: a caller makes at most MaxGroups group calls, scale in 1..MaxScale
MaxGroups == 2
MaxScale == 2

\* the values stored in the matrix a submatrix is extracted from
MValues == {1, 2}

-----------------------------------------------------------------------------
(* scipy.sparse matrices.  A matrix is [shape |-> <<m, n>>, data |-> f]     *)
(* with f a function from the stored coordinates <<i, j>> (0-based) to the  *)
(* stored values.                                                           *)

RECURSIVE SetSum(_, _)
\* sum of f[x] over x in S
SetSum(f, S) ==
    IF S = {} THEN 0
    ELSE LET x == CHOOSE y \in S : TRUE
         IN f[x] + SetSum(f, S \ {x})

\* np.arange(n) as a 1-based sequence
arange(n) == [k \in 1..n |-> k - 1]

\* np.ones(n)
ones(n) == [k \in 1..n |-> 1]

\* scipy.sparse.csc_matrix((vals, (rows, cols)), shape=shape): the triples go
\* through a COO matrix and its conversion to CSC, which sums the values of
\* the triples that share a coordinate into one stored entry.
csc_matrix(vals, rows, cols, shape) ==
    LET coords == {<<rows[k], cols[k]>> : k \in 1..Len(rows)}
    IN [shape |-> shape,
        data  |-> [p \in coords |->
                     SetSum(vals, {k \in 1..Len(rows) : <<rows[k], cols[k]>> = p})]]

\* ret.sum_duplicates(): on a CSC matrix in canonical form nothing is left to sum
sum_duplicates(A) == A

\* ret.data.fill(v)
data_fill(A, v) == [shape |-> A.shape, data |-> [p \in DOMAIN A.data |-> v]]

\* the number of stored entries
nnz(A) == Cardinality(DOMAIN A.data)

\* A[i, j]: the stored value, 0 where nothing is stored
Entry(A, i, j) == IF <<i, j>> \in DOMAIN A.data THEN A.data[<<i, j>>] ELSE 0

\* whether a.dot(b) is defined (it raises ValueError on a dimension mismatch)
CanDot(A, B) == A.shape[2] = B.shape[1]

\* A matrix too large to write out (a driver's 2^scale-order matrices) is
\* carried as [shape, expr]: the expression that defines it, random draws
\* named by the state of the random source they were drawn in.
IsExpr(A) == "expr" \in DOMAIN A

\* the sparse product of two matrices given by their stored entries; an entry
\* is stored at (i, j) when some k has A[i, k] and B[k, j] stored
SparseDot(A, B) ==
    LET inner == 0..(A.shape[2] - 1)
        hits(i, j) == {k \in inner : <<i, k>> \in DOMAIN A.data /\ <<k, j>> \in DOMAIN B.data}
        coords == {<<p[1], q[2]>> : <<p, q>> \in
                     {pq \in (DOMAIN A.data) \X (DOMAIN B.data) : pq[1][2] = pq[2][1]}}
    IN [shape |-> <<A.shape[1], B.shape[2]>>,
        data  |-> [c \in coords |->
                     SetSum([k \in inner |-> Entry(A, c[1], k) * Entry(B, k, c[2])],
                            hits(c[1], c[2]))]]

\* a.dot(b), a * b
Dot(A, B) ==
    IF IsExpr(A) \/ IsExpr(B)
    THEN [shape |-> <<A.shape[1], B.shape[2]>>, expr |-> [op |-> "dot", a |-> A, b |-> B]]
    ELSE SparseDot(A, B)

\* perm.transpose()
Transpose(A) ==
    IF IsExpr(A)
    THEN [shape |-> <<A.shape[2], A.shape[1]>>, expr |-> [op |-> "transpose", a |-> A]]
    ELSE [shape |-> <<A.shape[2], A.shape[1]>>,
          data  |-> [p \in {<<q[2], q[1]>> : q \in DOMAIN A.data} |-> A.data[<<p[2], p[1]>>]]]

-----------------------------------------------------------------------------
(* The generators of gen/gen/matrix_generators.py. *)

\* the mutant of col_offsets that forgets the negative offsets
col_offsets_positive_only(dim, n_axis) ==
    (IF dim = 0 THEN <<0>> ELSE <<0, 1>>)
        \o [k \in 1..(dim - 1) |-> n_axis^k - 1]

\* col_offsets of generate_torus_matrix
col_offsets(dim, n_axis) ==
    (IF dim = 0 THEN <<0>> ELSE <<0, 1, -1>>)
        \o [k \in 1..(2 * (dim - 1)) |->
              LET d == (k + 1) \div 2
              IN IF k % 2 = 1 THEN n_axis^d - 1 ELSE -(n_axis^d - 1)]

generate_torus_matrix(dim, n_axis) ==
    LET n == n_axis^dim
        offs == col_offsets(dim, n_axis)
        len == n * Len(offs)
        \* rows = np.concatenate((rows,) * len(col_offsets))
        rows == [k \in 1..len |-> (k - 1) % n]
        \* cols = the chunks (eye_cols + offset) % n, concatenated
        cols == [k \in 1..len |-> (((k - 1) % n) + offs[((k - 1) \div n) + 1]) % n]
    IN csc_matrix(ones(len), rows, cols, <<n, n>>)

generate_2d_torus_matrix(n_axis) == generate_torus_matrix(2, n_axis)

generate_3d_torus_matrix(n_axis) == generate_torus_matrix(3, n_axis)

\* the mutant of generate_er_matrix that forgets ret.data.fill(1)
generate_er_matrix_no_fill(m, n, nnn, dedupe, rows, cols) ==
    LET r == csc_matrix(ones(nnn), rows, cols, <<m, n>>)
    IN IF dedupe THEN sum_duplicates(r) ELSE r

\* rows, cols: what the two np.random.randint draws returned
generate_er_matrix(m, n, nnn, dedupe, rows, cols) ==
    LET r == csc_matrix(ones(nnn), rows, cols, <<m, n>>)
    IN IF dedupe THEN data_fill(sum_duplicates(r), 1) ELSE r

\* gen/matrix_generators.py: the same body, the parameters in the order n, m
legacy_generate_er_matrix(n, m, nnn, dedupe, rows, cols) ==
    LET r == csc_matrix(ones(nnn), rows, cols, <<m, n>>)
    IN IF dedupe THEN data_fill(sum_duplicates(r), 1) ELSE r

\* the outcomes of np.random.randint(low=0, high=high, size=size)
randint(high, size) == [1..size -> 0..(high - 1)]

\* the outcomes of np.random.permutation(n)
permutation(n) == {p \in [1..n -> 0..(n - 1)] : \A i, j \in 1..n : p[i] = p[j] => i = j}

\* the mutant of generate_permutation_matrix that puts every entry in column 0
generate_permutation_matrix_col0(n, perm) ==
    csc_matrix(ones(n), perm, [k \in 1..n |-> 0], <<n, n>>)

\* perm: what np.random.permutation(n) returned
generate_permutation_matrix(n, perm) ==
    csc_matrix(ones(n), perm, arange(n), <<n, n>>)

\* the mutant of generate_submatrix_extraction that forgets the stride
generate_submatrix_extraction_no_stride(shape, divisor) ==
    LET n == shape[1]
        k == n \div divisor
    IN IF shape[1] # shape[2] THEN [raised |-> "ValueError"]
       ELSE [raised |-> "none",
             left   |-> csc_matrix(ones(k), arange(k), arange(k), <<k, n>>),
             right  |-> csc_matrix(ones(k), arange(k), arange(k), <<n, k>>)]

generate_submatrix_extraction(shape, divisor) ==
    LET n == shape[1]
        \* k = int(n/divisor)
        k == n \div divisor
        left_rows == arange(k)
        left_cols == [i \in 1..k |-> left_rows[i] * divisor]
    IN IF shape[1] # shape[2] THEN [raised |-> "ValueError"]
       ELSE [raised |-> "none",
             left   |-> csc_matrix(ones(k), left_rows, left_cols, <<k, n>>),
             right  |-> csc_matrix(ones(k), left_cols, left_rows, <<n, k>>)]

-----------------------------------------------------------------------------
(* SpecGen: calls of the generators, their arguments and random draws taken *)
(* from bounded sets.                                                       *)

NoFiles == <<>>
\* the random source a run leaves untouched
NoRng == [seeded |-> FALSE, seed |-> 0, draws |-> <<>>]

RECURSIVE SubsetsUpTo(_, _)
\* the subsets of S with at most k elements
SubsetsUpTo(S, k) ==
    IF k = 0 THEN {{}}
    ELSE LET smaller == SubsetsUpTo(S, k - 1)
         IN smaller \cup {D \cup {x} : D \in smaller, x \in S}

\* the coordinate sets of a square matrix of order n with at most MaxMNnz
\* stored entries
SquareDomains(n) == SubsetsUpTo((0..(n - 1)) \X (0..(n - 1)), MaxMNnz)

Pending == [raised |-> "pending"]

\* the call a run makes, the outcome of its random draws included
InitCall ==
    \/ \E dim \in 0..MaxDim, n_axis \in 1..MaxAxis :
          call = [fn |-> "generate_torus_matrix", dim |-> dim, n_axis |-> n_axis]
    \/ \E n_axis \in 1..MaxAxis :
          call = [fn |-> "generate_2d_torus_matrix", dim |-> 2, n_axis |-> n_axis]
    \/ \E n_axis \in 1..MaxAxis :
          call = [fn |-> "generate_3d_torus_matrix", dim |-> 3, n_axis |-> n_axis]
    \/ \E fn \in {"generate_er_matrix", "legacy_generate_er_matrix"} :
       \E m \in 1..MaxM, n \in 1..MaxM, nnn \in 0..MaxNnn, dedupe \in BOOLEAN :
       \E rows \in randint(m, nnn), cols \in randint(n, nnn) :
          call = [fn |-> fn, m |-> m, n |-> n, nnn |-> nnn, dedupe |-> dedupe,
                  rows |-> rows, cols |-> cols]
    \/ \E n \in 0..MaxPermN : \E perm \in permutation(n) :
          call = [fn |-> "generate_permutation_matrix", n |-> n, perm |-> perm]
    \* M: the matrix the caller multiplies between left and right; it has the
    \* shape's order when the shape is square (no M takes part otherwise)
    \/ \E r \in 0..MaxSubN, c \in 0..MaxSubN, divisor \in 1..MaxDiv :
       \E D \in IF r = c THEN SquareDomains(r) ELSE {{}} :
       \E f \in [D -> MValues] :
          call = [fn |-> "generate_submatrix_extraction", shape |-> <<r, c>>,
                  divisor |-> divisor,
                  M |-> [shape |-> IF r = c THEN <<r, r>> ELSE <<0, 0>>, data |-> f]]

InitGen ==
    /\ InitCall
    /\ ret = Pending
    /\ files = NoFiles
    /\ dirs = {}
    /\ rng = NoRng
    /\ log = <<>>

CallTorus ==
    /\ ret = Pending
    /\ call.fn = "generate_torus_matrix"
    /\ ret' = [raised |-> "none", value |-> generate_torus_matrix(call.dim, call.n_axis)]
    /\ UNCHANGED <<call, files, dirs, rng, log>>

CallTorus2d ==
    /\ ret = Pending
    /\ call.fn = "generate_2d_torus_matrix"
    /\ ret' = [raised |-> "none", value |-> generate_2d_torus_matrix(call.n_axis)]
    /\ UNCHANGED <<call, files, dirs, rng, log>>

CallTorus3d ==
    /\ ret = Pending
    /\ call.fn = "generate_3d_torus_matrix"
    /\ ret' = [raised |-> "none", value |-> generate_3d_torus_matrix(call.n_axis)]
    /\ UNCHANGED <<call, files, dirs, rng, log>>

CallEr ==
    /\ ret = Pending
    /\ call.fn = "generate_er_matrix"
    /\ ret' = [raised |-> "none",
               value |-> generate_er_matrix(call.m, call.n, call.nnn, call.dedupe,
                                            call.rows, call.cols)]
    /\ UNCHANGED <<call, files, dirs, rng, log>>

CallLegacyEr ==
    /\ ret = Pending
    /\ call.fn = "legacy_generate_er_matrix"
    /\ ret' = [raised |-> "none",
               value |-> legacy_generate_er_matrix(call.n, call.m, call.nnn, call.dedupe,
                                                   call.rows, call.cols)]
    /\ UNCHANGED <<call, files, dirs, rng, log>>

CallPermutation ==
    /\ ret = Pending
    /\ call.fn = "generate_permutation_matrix"
    /\ ret' = [raised |-> "none", value |-> generate_permutation_matrix(call.n, call.perm)]
    /\ UNCHANGED <<call, files, dirs, rng, log>>

\* generate_submatrix_extraction and the product left * M * right that
\* generate_er_problems has the assembler compute from its result
CallSubmatrix ==
    /\ ret = Pending
    /\ call.fn = "generate_submatrix_extraction"
    /\ LET lr == generate_submatrix_extraction(call.shape, call.divisor)
       IN ret' = IF lr.raised # "none" THEN lr
                 ELSE [raised |-> "none", left |-> lr.left, right |-> lr.right,
                       abc |-> Dot(Dot(lr.left, call.M), lr.right)]
    /\ UNCHANGED <<call, files, dirs, rng, log>>

NextGen ==
    \/ CallTorus
    \/ CallTorus2d
    \/ CallTorus3d
    \/ CallEr
    \/ CallLegacyEr
    \/ CallPermutation
    \/ CallSubmatrix

SpecGen == InitGen /\ [][NextGen]_vars

-----------------------------------------------------------------------------
(* Properties of the generators, under SpecGen. *)

Returned == ret.raised = "none"

IsTorusCall ==
    call.fn \in {"generate_torus_matrix", "generate_2d_torus_matrix",
                 "generate_3d_torus_matrix"}

IsErCall == call.fn \in {"generate_er_matrix", "legacy_generate_er_matrix"}

IsSquareSubmatrixCall ==
    call.fn = "generate_submatrix_extraction" /\ call.shape[1] = call.shape[2]

\* C1: for a square shape (n, n) and a divisor >= 1, Left has shape (k, n) and
\* Right has shape (n, k) with k = floor(n / divisor), and Left * M * Right is
\* the k-by-k matrix whose entry (i, j) is M[i*divisor][j*divisor].
SubmatrixExtractsStridedRowsAndColumns ==
    (IsSquareSubmatrixCall /\ ret # Pending) =>
        LET n == call.shape[1]
            d == call.divisor
            k == CHOOSE q \in 0..n : q * d <= n /\ n < (q + 1) * d
        IN /\ Returned
           /\ ret.left.shape = <<k, n>>
           /\ ret.right.shape = <<n, k>>
           /\ ret.abc.shape = <<k, k>>
           /\ DOMAIN ret.abc.data \subseteq (0..(k - 1)) \X (0..(k - 1))
           /\ \A i, j \in 0..(k - 1) :
                 Entry(ret.abc, i, j) = Entry(call.M, i * d, j * d)

\* C1 happens: order 4, divisor 2, Left and Right as in the spec's scenario,
\* and an entry of M at (2, 0) that the product carries to (1, 0).
SubmatrixExtractionWitness ==
    /\ IsSquareSubmatrixCall /\ Returned
    /\ call.shape = <<4, 4>> /\ call.divisor = 2
    /\ DOMAIN ret.left.data = {<<0, 0>>, <<1, 2>>}
    /\ DOMAIN ret.right.data = {<<0, 0>>, <<2, 1>>}
    /\ Entry(call.M, 2, 0) = 2 /\ Entry(call.M, 1, 0) = 1
    /\ Entry(ret.abc, 1, 0) = 2

\* digit d of vertex v written in base b
Digit(v, d, b) == (v \div (b^d)) % b

\* v with digit d replaced by x
WithDigit(v, d, x, b) == v - Digit(v, d, b) * (b^d) + x * (b^d)

\* the coordinates of the torus graph: a self-loop and, on each axis, the
\* two neighbours whose digit on that axis is one more or one less mod n_axis
TorusGraph(dim, b) ==
    LET V == 0..(b^dim - 1)
    IN {<<v, v>> : v \in V}
       \cup {<<vd[1], WithDigit(vd[1], vd[2], (Digit(vd[1], vd[2], b) + 1) % b, b)>> :
                vd \in V \X (0..(dim - 1))}
       \cup {<<vd[1], WithDigit(vd[1], vd[2], (Digit(vd[1], vd[2], b) - 1) % b, b)>> :
                vd \in V \X (0..(dim - 1))}

\* C2: for dim >= 1 the nonzeros of generate_torus_matrix(dim, n_axis) are
\* exactly the self-loops and the per-axis digit neighbours of the torus graph.
TorusIsTheTorusGraph ==
    (IsTorusCall /\ Returned /\ call.dim >= 1) =>
        DOMAIN ret.value.data = TorusGraph(call.dim, call.n_axis)

\* the neighbour offsets the spec declares
DeclaredOffsets(dim, b) ==
    IF dim = 0 THEN {0}
    ELSE {0, 1, -1} \cup {b^d - 1 : d \in 1..(dim - 1)}
                    \cup {-(b^d - 1) : d \in 1..(dim - 1)}

RowCount(A, i) == Cardinality({p \in DOMAIN A.data : p[1] = i})

ColCount(A, j) == Cardinality({p \in DOMAIN A.data : p[2] = j})

Identity(n) == [shape |-> <<n, n>>, data |-> [p \in {<<i, i>> : i \in 0..(n - 1)} |-> 1]]

\* C4: a permutation matrix is n-by-n with exactly one nonzero, equal to 1, in
\* each row and in each column, and P * transpose(P) is the identity.
PermutationMatrixIsOrthogonal ==
    (call.fn = "generate_permutation_matrix" /\ ret # Pending) =>
        LET P == ret.value
            n == call.n
        IN /\ Returned
           /\ P.shape = <<n, n>>
           /\ DOMAIN P.data \subseteq (0..(n - 1)) \X (0..(n - 1))
           /\ \A i \in 0..(n - 1) : RowCount(P, i) = 1 /\ ColCount(P, i) = 1
           /\ \A p \in DOMAIN P.data : P.data[p] = 1
           /\ Dot(P, Transpose(P)) = Identity(n)

\* C4 happens: a permutation of order 3 that moves every row.
PermutationWitness ==
    /\ call.fn = "generate_permutation_matrix" /\ Returned
    /\ call.n = 3
    /\ DOMAIN ret.value.data = {<<1, 0>>, <<2, 1>>, <<0, 2>>}

\* C5: with dedupe the Erdos-Renyi matrix has shape (m, n), at most nnn stored
\* coordinates, all within [0, m) x [0, n), and every stored value is 1.
ErDedupedIsZeroOne ==
    (IsErCall /\ call.dedupe /\ ret # Pending) =>
        LET A == ret.value
        IN /\ Returned
           /\ A.shape = <<call.m, call.n>>
           /\ nnz(A) <= call.nnn
           /\ DOMAIN A.data \subseteq (0..(call.m - 1)) \X (0..(call.n - 1))
           /\ \A p \in DOMAIN A.data : A.data[p] = 1

\* C5 happens: three draws, two of them at the same coordinate, consolidated
\* into two stored entries of value 1 in a 1-by-2 matrix.
ErDedupedWitness ==
    /\ IsErCall /\ call.dedupe /\ Returned
    /\ call.m = 1 /\ call.n = 2 /\ call.nnn = 3
    /\ call.cols = <<1, 0, 1>>
    /\ nnz(ret.value) = 2
    /\ ret.value.data[<<0, 1>>] = 1

\* C6: without dedupe the matrix stores exactly nnn entries, a coordinate
\* drawn more than once staying as that many entries of value 1.
ErNotDedupedKeepsEveryDraw ==
    (IsErCall /\ ~call.dedupe /\ Returned) =>
        /\ nnz(ret.value) = call.nnn
        /\ \A p \in DOMAIN ret.value.data : ret.value.data[p] = 1

-----------------------------------------------------------------------------
(* The problem assemblers: gen/gen/multiply_problem_generators.py and        *)
(* gen/gen/medium_test_generators.py.  A file system value is                *)
(* [files, dirs, written, raised]: written lists the paths one call has      *)
(* written, in order; raised is the exception the call ended with.           *)

\* Python's None, as the optional matrix c
None == [none |-> TRUE]

\* gen/gen/__init__.py is not part of the sources; the value is the one
\* generate_test_problems.py gives the same name
medium_test_multiply_matrix_dir == "../test/matrices/medium/multiply"

\* os.path.join(basedir, name)
join(basedir, name) == basedir \o "/" \o name

\* os.makedirs(dirname, exist_ok=True), dirname being join(basedir, name):
\* creates what is missing of the path and accepts what exists
makedirs(fs, basedir, dirname) == [fs EXCEPT !.dirs = @ \cup {basedir, dirname}]

\* scipy.io.mmwrite(os.path.join(dirname, fname), matrix, field=, symmetry=):
\* creates the file or replaces its content; field "None" is no field given
mmwrite(fs, dirname, fname, matrix, field, symmetry) ==
    [fs EXCEPT
        !.files = (<<dirname, fname>> :>
                     [matrix |-> matrix, field |-> field, symmetry |-> symmetry]) @@ @,
        !.written = Append(@, <<dirname, fname>>)]

\* the mutant of product_ab_field that takes a's field whatever b's is
product_ab_field_of_a(a_field, b_field) == a_field

\* product_ab_field = a_field if a_field == b_field else None
product_ab_field(a_field, b_field) == IF a_field = b_field THEN a_field ELSE "None"

\* product_abc_field = a_field if a_field == b_field == c_field else None
product_abc_field(a_field, b_field, c_field) ==
    IF a_field = b_field /\ b_field = c_field THEN a_field ELSE "None"

\* the call starts with nothing written and no exception
Entered(fs) == [files |-> fs.files, dirs |-> fs.dirs, written |-> <<>>, raised |-> "none"]

\* the mutant of generate_multiply_problem that writes the three-matrix
\* product under the two-matrix product's file name
generate_multiply_problem_ab_name(fs, p) ==
    LET dirname == join(p.basedir, p.name)
        s0 == makedirs(Entered(fs), p.basedir, dirname)
        s1 == mmwrite(s0, dirname, "a.mtx", p.a, p.a_field, p.a_symmetry)
        s2 == mmwrite(s1, dirname, "b.mtx", p.b, p.b_field, p.b_symmetry)
    IN IF p.c = None
       THEN IF ~CanDot(p.a, p.b) THEN [s2 EXCEPT !.raised = "ValueError"]
            ELSE mmwrite(s2, dirname, "product_ab.mtx", Dot(p.a, p.b),
                         product_ab_field(p.a_field, p.b_field), "general")
       ELSE IF ~CanDot(p.a, p.b) \/ ~CanDot(Dot(p.a, p.b), p.c)
            THEN [s2 EXCEPT !.raised = "ValueError"]
            ELSE LET s3 == mmwrite(s2, dirname, "c.mtx", p.c, p.c_field, p.c_symmetry)
                 IN mmwrite(s3, dirname, "product_ab.mtx", Dot(Dot(p.a, p.b), p.c),
                            product_abc_field(p.a_field, p.b_field, p.c_field), "general")

\* p: the arguments basedir, name, a, b, c, a_field .. c_symmetry
generate_multiply_problem(fs, p) ==
    LET dirname == join(p.basedir, p.name)
        s0 == makedirs(Entered(fs), p.basedir, dirname)
        s1 == mmwrite(s0, dirname, "a.mtx", p.a, p.a_field, p.a_symmetry)
        s2 == mmwrite(s1, dirname, "b.mtx", p.b, p.b_field, p.b_symmetry)
    IN IF p.c = None
       THEN \* ab = a.dot(b) comes after a.mtx and b.mtx are written
            IF ~CanDot(p.a, p.b) THEN [s2 EXCEPT !.raised = "ValueError"]
            ELSE mmwrite(s2, dirname, "product_ab.mtx", Dot(p.a, p.b),
                         product_ab_field(p.a_field, p.b_field), "general")
       ELSE \* abc = a * b * c comes before c.mtx is written
            IF ~CanDot(p.a, p.b) \/ ~CanDot(Dot(p.a, p.b), p.c)
            THEN [s2 EXCEPT !.raised = "ValueError"]
            ELSE LET s3 == mmwrite(s2, dirname, "c.mtx", p.c, p.c_field, p.c_symmetry)
                 IN mmwrite(s3, dirname, "product_abc.mtx", Dot(Dot(p.a, p.b), p.c),
                            product_abc_field(p.a_field, p.b_field, p.c_field), "general")

\* the mutant of problem_name that forgets the prefix
problem_name_unmarked(name, gitignored) == name

\* if gitignored: name = "gitignored - " + name
problem_name(name, gitignored) == IF gitignored THEN "gitignored - " \o name ELSE name

\* p: the arguments name, a, b, c, gitignored, a_field .. c_symmetry
generate_medium_test_multiply_problem(fs, p) ==
    LET name == problem_name(p.name, p.gitignored)
        dirname == join(medium_test_multiply_matrix_dir, name)
        s0 == makedirs(Entered(fs), medium_test_multiply_matrix_dir, dirname)
        s1 == mmwrite(s0, dirname, "a.mtx", p.a, p.a_field, p.a_symmetry)
        s2 == mmwrite(s1, dirname, "b.mtx", p.b, p.b_field, p.b_symmetry)
    IN IF p.c = None
       THEN IF ~CanDot(p.a, p.b) THEN [s2 EXCEPT !.raised = "ValueError"]
            ELSE mmwrite(s2, dirname, "product_ab.mtx", Dot(p.a, p.b),
                         product_ab_field(p.a_field, p.b_field), "general")
       ELSE IF ~CanDot(p.a, p.b) \/ ~CanDot(Dot(p.a, p.b), p.c)
            THEN [s2 EXCEPT !.raised = "ValueError"]
            ELSE LET s3 == mmwrite(s2, dirname, "c.mtx", p.c, p.c_field, p.c_symmetry)
                 IN mmwrite(s3, dirname, "product_abc.mtx", Dot(Dot(p.a, p.b), p.c),
                            product_abc_field(p.a_field, p.b_field, p.c_field), "general")

\* a call of one of the two assemblers, by the name fn
Assemble(fs, fn, p) ==
    IF fn = "generate_multiply_problem" THEN generate_multiply_problem(fs, p)
    ELSE generate_medium_test_multiply_problem(fs, p)

\* the directory a call writes to
DirnameOf(fn, p) ==
    IF fn = "generate_multiply_problem" THEN join(p.basedir, p.name)
    ELSE join(medium_test_multiply_matrix_dir, problem_name(p.name, p.gitignored))

-----------------------------------------------------------------------------
(* SpecAsm: a run of up to MaxCalls assembler calls on one file system.      *)
(* SpecMeta: one assembler call, over every combination of field and         *)
(* symmetry kinds.  log lists the calls made; ret.before is the file system  *)
(* the last call started from.                                               *)

\* the operands the calls are made with: a 2-by-2 row swap, a 2-by-1 column
\* (which no 2-by-2 matrix can follow in a product)
Swap2 == [shape |-> <<2, 2>>, data |-> (<<0, 1>> :> 1) @@ (<<1, 0>> :> 1)]
Column2 == [shape |-> <<2, 1>>, data |-> (<<0, 0>> :> 1) @@ (<<1, 0>> :> 1)]

FieldKinds == {"integer", "real", "pattern"}
SymmetryKinds == {"general", "symmetric"}

Defaults ==
    [a_field |-> "integer", b_field |-> "integer", c_field |-> "integer",
     a_symmetry |-> "general", b_symmetry |-> "general", c_symmetry |-> "general"]

\* the arguments of SpecAsm's calls
AsmArgs ==
    {[name |-> nm, a |-> a, b |-> Swap2, c |-> c, a_field |-> af] @@ Defaults :
        nm \in {"p", "q"}, a \in {Swap2, Column2}, c \in {None, Swap2},
        af \in {"integer", "real"}}

\* the arguments of SpecMeta's calls
MetaArgs ==
    {[name |-> "p", a |-> Swap2, b |-> Swap2, c |-> c,
      a_field |-> f[1], b_field |-> f[2], c_field |-> f[3],
      a_symmetry |-> y[1], b_symmetry |-> y[2], c_symmetry |-> y[3]] :
        c \in {None, Swap2},
        f \in FieldKinds \X FieldKinds \X FieldKinds,
        y \in SymmetryKinds \X SymmetryKinds \X SymmetryKinds}

InitAsm ==
    /\ call = [fn |-> "none"]
    /\ ret = [raised |-> "none", written |-> <<>>, before |-> [files |-> NoFiles, dirs |-> {}]]
    /\ files = NoFiles
    /\ dirs = {}
    /\ rng = NoRng
    /\ log = <<>>

\* one call of an assembler, from the file system as it is
AssemblerStep(fn, p) ==
    LET r == Assemble([files |-> files, dirs |-> dirs], fn, p)
    IN /\ call' = [fn |-> fn, p |-> p]
       /\ files' = r.files
       /\ dirs' = r.dirs
       /\ ret' = [raised |-> r.raised, written |-> r.written,
                  before |-> [files |-> files, dirs |-> dirs]]
       /\ log' = Append(log, [fn |-> fn, p |-> p, raised |-> r.raised])
       /\ UNCHANGED rng

CallMultiplyProblem(Args) ==
    \E p \in Args :
        /\ Len(log) < MaxCalls
        /\ AssemblerStep("generate_multiply_problem", p @@ [basedir |-> "out"])

CallMediumTestMultiplyProblem(Args) ==
    \E p \in Args, gitignored \in BOOLEAN :
        /\ Len(log) < MaxCalls
        /\ AssemblerStep("generate_medium_test_multiply_problem",
                         p @@ [gitignored |-> gitignored])

NextAsm ==
    \/ CallMultiplyProblem(AsmArgs)
    \/ CallMediumTestMultiplyProblem(AsmArgs)

SpecAsm == InitAsm /\ [][NextAsm]_vars

NextMeta ==
    \/ log = <<>> /\ CallMultiplyProblem(MetaArgs)
    \/ log = <<>> /\ CallMediumTestMultiplyProblem(MetaArgs)

SpecMeta == InitAsm /\ [][NextMeta]_vars

-----------------------------------------------------------------------------
(* Properties of the assemblers. *)

IsAssemblerCall ==
    call.fn \in {"generate_multiply_problem", "generate_medium_test_multiply_problem"}

\* the common field kind of a set of field kinds, "None" when there is none
CommonField(kinds) == IF Cardinality(kinds) = 1 THEN CHOOSE k \in kinds : TRUE ELSE "None"

\* C7: the product file carries the operands' field when all operands that
\* take part have the same field kind and no field otherwise, and always the
\* symmetry 'general'; c_field plays no part in a two-matrix product.
ProductFieldAndSymmetry ==
    (IsAssemblerCall /\ ret.raised = "none") =>
        LET p == call.p
            dirname == DirnameOf(call.fn, p)
            product == IF p.c = None THEN <<dirname, "product_ab.mtx">>
                       ELSE <<dirname, "product_abc.mtx">>
            taking_part == IF p.c = None THEN {p.a_field, p.b_field}
                           ELSE {p.a_field, p.b_field, p.c_field}
        IN /\ product \in DOMAIN files
           /\ files[product].field = CommonField(taking_part)
           /\ files[product].symmetry = "general"

\* C7 happens: a two-matrix product of symmetric 'real' operands, with a
\* c_field that differs, is written as 'real' and 'general'.
ProductFieldWitness ==
    /\ IsAssemblerCall /\ ret.raised = "none"
    /\ call.p.c = None
    /\ call.p.a_field = "real" /\ call.p.b_field = "real" /\ call.p.c_field = "pattern"
    /\ call.p.a_symmetry = "symmetric" /\ call.p.b_symmetry = "symmetric"
    /\ files[<<DirnameOf(call.fn, call.p), "product_ab.mtx">>].field = "real"
    /\ files[<<DirnameOf(call.fn, call.p), "product_ab.mtx">>].symmetry = "general"

\* the set of the elements of a sequence
Range(seq) == {seq[i] : i \in 1..Len(seq)}

\* C9: a call that returns has created its one destination directory and
\* written into it a.mtx, b.mtx and one product file (product_ab.mtx without
\* c; c.mtx and product_abc.mtx with c), each once; and a second call with
\* the same arguments returns too and leaves every directory and every file
\* as the first call left them.
AssemblerWritesOneProblemAndIsIdempotent ==
    IsAssemblerCall =>
        LET p == call.p
            dirname == DirnameOf(call.fn, p)
            expected == IF p.c = None THEN {"a.mtx", "b.mtx", "product_ab.mtx"}
                        ELSE {"a.mtx", "b.mtx", "c.mtx", "product_abc.mtx"}
            n == Len(log)
            again == /\ n >= 2
                     /\ log[n - 1].fn = call.fn /\ log[n - 1].p = p
                     /\ log[n - 1].raised = "none"
        IN /\ (ret.raised = "none") =>
                /\ dirname \in dirs
                /\ Range(ret.written) = {<<dirname, f>> : f \in expected}
                /\ Len(ret.written) = Cardinality(expected)
                /\ dirs \ ret.before.dirs \subseteq
                       {dirname, IF call.fn = "generate_multiply_problem"
                                 THEN p.basedir
                                 ELSE medium_test_multiply_matrix_dir}
                /\ files[<<dirname, "a.mtx">>].matrix = p.a
                /\ files[<<dirname, "b.mtx">>].matrix = p.b
                /\ IF p.c = None
                   THEN files[<<dirname, "product_ab.mtx">>].matrix = Dot(p.a, p.b)
                   ELSE /\ files[<<dirname, "c.mtx">>].matrix = p.c
                        /\ files[<<dirname, "product_abc.mtx">>].matrix
                              = Dot(Dot(p.a, p.b), p.c)
                /\ \A q \in DOMAIN ret.before.files :
                      q \notin Range(ret.written) => files[q] = ret.before.files[q]
           /\ again =>
                /\ ret.raised = "none"
                /\ files = ret.before.files
                /\ dirs = ret.before.dirs

\* C9 happens: the same three-matrix problem assembled twice in a row, after
\* which the directory holds the four files the first call wrote.
AssemblerIdempotenceWitness ==
    /\ IsAssemblerCall /\ ret.raised = "none"
    /\ Len(log) = 2 /\ log[1] = log[2]
    /\ call.p.c # None
    /\ Len(ret.written) = 4
    /\ files = ret.before.files
    /\ Cardinality(DOMAIN files) = 4

-----------------------------------------------------------------------------
(* The random source and the problem-group generators.  A world value is     *)
(* [files, dirs, rng]; a group generator returns the world it leaves and a   *)
(* record of the group: the random source at its first draw, its matrices    *)
(* and the problems it assembled.                                            *)

\* np.random.seed(s)
seed(s) == [seeded |-> TRUE, seed |-> s, draws |-> <<>>]

\* what a draw returns: fixed by the state of the source and the request
Drawn(r, request) == [rng |-> r, request |-> request]

\* the source after a draw
After(r, request) == [r EXCEPT !.draws = Append(@, request)]

\* generate_er_matrix on the source r: two randint draws
er_matrix_expr(r, m, n, nnn, dedupe) ==
    LET rows == [fn |-> "randint", high |-> m, size |-> nnn]
        cols == [fn |-> "randint", high |-> n, size |-> nnn]
        r1 == After(r, rows)
    IN [value |-> [shape |-> <<m, n>>,
                   expr |-> [op |-> "er", rows |-> Drawn(r, rows), cols |-> Drawn(r1, cols),
                             dedupe |-> dedupe]],
        rng |-> After(r1, cols)]

\* generate_permutation_matrix on the source r: one permutation draw
permutation_matrix_expr(r, n) ==
    LET perm == [fn |-> "permutation", n |-> n]
    IN [value |-> [shape |-> <<n, n>>, expr |-> [op |-> "permutation", rows |-> Drawn(r, perm)]],
        rng |-> After(r, perm)]

\* generate_3d_torus_matrix(n_axis)
torus_3d_matrix_expr(n_axis) ==
    [shape |-> <<n_axis^3, n_axis^3>>, expr |-> [op |-> "torus", dim |-> 3, n_axis |-> n_axis]]

\* generate_submatrix_extraction(shape) of a square shape, divisor 2
submatrix_extraction_expr(shape) ==
    LET n == shape[1]
        k == n \div 2
    IN [left  |-> [shape |-> <<k, n>>, expr |-> [op |-> "extract_left", divisor |-> 2]],
        right |-> [shape |-> <<n, k>>, expr |-> [op |-> "extract_right", divisor |-> 2]]]

\* the record of one assembler call, from what it returned
Problem(f) == [dirname |-> f.written[1][1], written |-> f.written, raised |-> f.raised]

\* medium_test_generators.generate_er_problems(scale, fill_factor=32, gitignored)
medium_test_generate_er_problems(w, scale, gitignored) ==
    LET r0 == seed(scale)
        er == er_matrix_expr(r0, 2^scale, 2^scale, (2^scale) * 32, TRUE)
        perm == permutation_matrix_expr(er.rng, er.value.shape[1])
        sub == submatrix_extraction_expr(er.value.shape)
        sc == ToString(scale)
        f1 == generate_medium_test_multiply_problem(w,
                [name |-> "ER squared scale " \o sc, a |-> er.value, b |-> er.value,
                 c |-> None, gitignored |-> gitignored] @@ Defaults)
        f2 == generate_medium_test_multiply_problem(f1,
                [name |-> "row perm of ER scale " \o sc, a |-> perm.value, b |-> er.value,
                 c |-> None, gitignored |-> gitignored] @@ Defaults)
        f3 == generate_medium_test_multiply_problem(f2,
                [name |-> "submatrix of ER scale " \o sc, a |-> sub.left, b |-> er.value,
                 c |-> sub.right, gitignored |-> gitignored] @@ Defaults)
    IN [files |-> f3.files, dirs |-> f3.dirs, rng |-> perm.rng,
        group |-> [fn |-> "medium_test_generators.generate_er_problems", scale |-> scale,
                   gitignored |-> gitignored, first_draw |-> r0,
                   matrices |-> <<er.value, perm.value>>,
                   problems |-> <<Problem(f1), Problem(f2), Problem(f3)>>]]

\* medium_test_generators.generate_torus_problems(scale, gitignored)
medium_test_generate_torus_problems(w, scale, gitignored) ==
    LET r0 == seed(scale)
        torus == torus_3d_matrix_expr(scale)
        perm == permutation_matrix_expr(r0, torus.shape[1])
        torus_rp == Dot(Dot(perm.value, torus), Transpose(perm.value))
        sc == ToString(scale)
        f1 == generate_medium_test_multiply_problem(w,
                [name |-> "3D torus squared scale " \o sc, a |-> torus, b |-> torus,
                 c |-> None, gitignored |-> gitignored] @@ Defaults)
        f2 == generate_medium_test_multiply_problem(f1,
                [name |-> "3D torus (rand perm) squared scale " \o sc, a |-> torus_rp,
                 b |-> torus_rp, c |-> None, gitignored |-> gitignored] @@ Defaults)
        f3 == generate_medium_test_multiply_problem(f2,
                [name |-> "row perm of 3D torus scale " \o sc, a |-> perm.value, b |-> torus,
                 c |-> None, gitignored |-> gitignored] @@ Defaults)
        f4 == generate_medium_test_multiply_problem(f3,
                [name |-> "row perm of 3D torus (RP) scale " \o sc, a |-> perm.value,
                 b |-> torus_rp, c |-> None, gitignored |-> gitignored] @@ Defaults)
    IN [files |-> f4.files, dirs |-> f4.dirs, rng |-> perm.rng,
        group |-> [fn |-> "medium_test_generators.generate_torus_problems", scale |-> scale,
                   gitignored |-> gitignored, first_draw |-> r0,
                   matrices |-> <<torus, perm.value>>,
                   problems |-> <<Problem(f1), Problem(f2), Problem(f3), Problem(f4)>>]]

\* multiply_problem_generators.generate_er_problems(basedir, scale, fill_factor=32)
generate_er_problems(w, basedir, scale) ==
    LET r0 == seed(scale)
        er == er_matrix_expr(r0, 2^scale, 2^scale, (2^scale) * 32, TRUE)
        perm == permutation_matrix_expr(er.rng, er.value.shape[1])
        sub == submatrix_extraction_expr(er.value.shape)
        sc == ToString(scale)
        f1 == generate_multiply_problem(w,
                [basedir |-> basedir, name |-> "square ER scale " \o sc,
                 a |-> er.value, b |-> er.value, c |-> None] @@ Defaults)
        f2 == generate_multiply_problem(f1,
                [basedir |-> basedir, name |-> "row_perm ER scale " \o sc,
                 a |-> perm.value, b |-> er.value, c |-> None] @@ Defaults)
        f3 == generate_multiply_problem(f2,
                [basedir |-> basedir, name |-> "submatrix ER scale " \o sc,
                 a |-> sub.left, b |-> er.value, c |-> sub.right] @@ Defaults)
    IN [files |-> f3.files, dirs |-> f3.dirs, rng |-> perm.rng,
        group |-> [fn |-> "multiply_problem_generators.generate_er_problems",
                   scale |-> scale, gitignored |-> FALSE, first_draw |-> r0,
                   matrices |-> <<er.value, perm.value>>,
                   problems |-> <<Problem(f1), Problem(f2), Problem(f3)>>]]

\* multiply_problem_generators.generate_torus_problems(basedir, scale)
generate_torus_problems(w, basedir, scale) ==
    LET r0 == seed(scale)
        torus == torus_3d_matrix_expr(scale)
        perm == permutation_matrix_expr(r0, torus.shape[1])
        torus_rp == Dot(Dot(perm.value, torus), Transpose(perm.value))
        sc == ToString(scale)
        f1 == generate_multiply_problem(w,
                [basedir |-> basedir, name |-> "square 3Dtorus scale " \o sc,
                 a |-> torus, b |-> torus, c |-> None] @@ Defaults)
        f2 == generate_multiply_problem(f1,
                [basedir |-> basedir, name |-> "square 3DtorusRP scale " \o sc,
                 a |-> torus_rp, b |-> torus_rp, c |-> None] @@ Defaults)
        f3 == generate_multiply_problem(f2,
                [basedir |-> basedir, name |-> "row_perm 3Dtorus scale " \o sc,
                 a |-> perm.value, b |-> torus, c |-> None] @@ Defaults)
        f4 == generate_multiply_problem(f3,
                [basedir |-> basedir, name |-> "row_perm 3DtorusRP scale " \o sc,
                 a |-> perm.value, b |-> torus_rp, c |-> None] @@ Defaults)
    IN [files |-> f4.files, dirs |-> f4.dirs, rng |-> perm.rng,
        group |-> [fn |-> "multiply_problem_generators.generate_torus_problems",
                   scale |-> scale, gitignored |-> FALSE, first_draw |-> r0,
                   matrices |-> <<torus, perm.value>>,
                   problems |-> <<Problem(f1), Problem(f2), Problem(f3), Problem(f4)>>]]

\* generate_test_problems.generate_medium_test_er_x_er(scale, fill_factor=32):
\* draws from the source as it finds it, and writes the files itself
generate_medium_test_er_x_er(w, scale) ==
    LET mn == 2^scale
        nnn == (2^scale) * 32
        a == er_matrix_expr(w.rng, mn, mn, nnn, TRUE)
        b == er_matrix_expr(a.rng, mn, mn, nnn, TRUE)
        ab == Dot(a.value, b.value)
        dirname == join(medium_test_multiply_matrix_dir, "ER x ER scale " \o ToString(scale))
        s0 == makedirs(Entered(w), medium_test_multiply_matrix_dir, dirname)
        s1 == mmwrite(s0, dirname, "a.mtx", a.value, "integer", "None")
        s2 == mmwrite(s1, dirname, "b.mtx", b.value, "integer", "None")
        s3 == mmwrite(s2, dirname, "product_ab.mtx", ab, "integer", "None")
    IN [files |-> s3.files, dirs |-> s3.dirs, rng |-> b.rng,
        group |-> [fn |-> "generate_test_problems.generate_medium_test_er_x_er",
                   scale |-> scale, gitignored |-> FALSE, first_draw |-> w.rng,
                   matrices |-> <<a.value, b.value>>,
                   problems |-> <<Problem(s3)>>]]

-----------------------------------------------------------------------------
(* SpecDrv: one run of a driver.  call.fn is the program: the medium-test    *)
(* driver generate_medium_test_problems, the script generate_test_problems   *)
(* (main), or a caller that makes up to MaxGroups group calls of its choice. *)
(* call.pc counts the steps done; log lists the groups generated.            *)

\* generate_test_problems.py: unit_test_matrix_dir and the directory under it
unit_test_matrix_dir == "../test/matrices/unit"
unit_test_multiply_matrix_dir == "../test/matrices/unit/multiply"

\* the input file of generate_kg_square_problem, when it is there
KgFile ==
    <<unit_test_matrix_dir, "kepner_gilbert_graph.mtx">> :>
        [matrix |-> [shape |-> <<7, 7>>, expr |-> [op |-> "kepner_gilbert_graph"]],
         field |-> "integer", symmetry |-> "general"]

\* the source starts from the operating system's entropy, which differs
\* from run to run, unless the program seeds it
InitDrv ==
    /\ call \in {[fn |-> f, pc |-> 0] :
                    f \in {"generate_medium_test_problems", "main", "caller"}}
    /\ ret = [raised |-> "none"]
    /\ files \in {NoFiles, KgFile}
    /\ dirs = {}
    /\ rng \in {[seeded |-> FALSE, seed |-> e, draws |-> <<>>] : e \in {0, 1}}
    /\ log = <<>>

World == [files |-> files, dirs |-> dirs, rng |-> rng]

\* the run goes on in the world a group generator left
GroupDone(g) ==
    /\ files' = g.files
    /\ dirs' = g.dirs
    /\ rng' = g.rng
    /\ log' = Append(log, g.group)
    /\ call' = [call EXCEPT !.pc = @ + 1]
    /\ UNCHANGED ret

Running(fn) == call.fn = fn /\ ret.raised = "none"

\* generate_medium_test_problems: generate_er_problems(scale=5, gitignored=False)
\* first, generate_er_problems(scale=10) third
MediumTestProblemsEr ==
    /\ Running("generate_medium_test_problems")
    /\ call.pc \in {0, 2}
    /\ GroupDone(IF call.pc = 0 THEN medium_test_generate_er_problems(World, 5, FALSE)
                 ELSE medium_test_generate_er_problems(World, 10, TRUE))

\* generate_medium_test_problems: generate_torus_problems(scale=4,
\* gitignored=False) second, then the loop over the scales 20 and 50
MediumTestProblemsTorus ==
    /\ Running("generate_medium_test_problems")
    /\ call.pc \in {1, 3, 4}
    /\ GroupDone(IF call.pc = 1 THEN medium_test_generate_torus_problems(World, 4, FALSE)
                 ELSE IF call.pc = 3 THEN medium_test_generate_torus_problems(World, 20, TRUE)
                 ELSE medium_test_generate_torus_problems(World, 50, TRUE))

\* main: np.random.seed(0)
MainSeed ==
    /\ Running("main")
    /\ call.pc = 0
    /\ rng' = seed(0)
    /\ call' = [call EXCEPT !.pc = 1]
    /\ UNCHANGED <<ret, files, dirs, log>>

\* main: generate_unit_test_problems(), that is generate_kg_square_problem():
\* mmread fails when the input file is missing
MainUnitTestProblems ==
    /\ Running("main")
    /\ call.pc = 1
    /\ IF DOMAIN KgFile \subseteq DOMAIN files
       THEN LET m == files[<<unit_test_matrix_dir, "kepner_gilbert_graph.mtx">>].matrix
                dirname == join(unit_test_multiply_matrix_dir, "Kepner-Gilbert graph squared")
                s0 == makedirs(Entered(World), unit_test_multiply_matrix_dir, dirname)
                s1 == mmwrite(s0, dirname, "a.mtx", m, "integer", "None")
                s2 == mmwrite(s1, dirname, "b.mtx", m, "integer", "None")
                s3 == mmwrite(s2, dirname, "product_ab.mtx", Dot(m, m), "integer", "None")
            IN /\ files' = s3.files
               /\ dirs' = s3.dirs
               /\ UNCHANGED ret
       ELSE /\ ret' = [raised |-> "FileNotFoundError"]
            /\ UNCHANGED <<files, dirs>>
    /\ call' = [call EXCEPT !.pc = 2]
    /\ UNCHANGED <<rng, log>>

\* main: generate_medium_test_problems(): generate_medium_test_er_x_er at
\* the scales 5 and 10
MainErXEr ==
    /\ Running("main")
    /\ call.pc \in {2, 3}
    /\ GroupDone(generate_medium_test_er_x_er(World, IF call.pc = 2 THEN 5 ELSE 10))

CallerGoesOn == Running("caller") /\ Len(log) < MaxGroups

CallMediumTestErProblems ==
    \E scale \in 1..MaxScale, gitignored \in BOOLEAN :
        /\ CallerGoesOn
        /\ GroupDone(medium_test_generate_er_problems(World, scale, gitignored))

CallMediumTestTorusProblems ==
    \E scale \in 1..MaxScale, gitignored \in BOOLEAN :
        /\ CallerGoesOn
        /\ GroupDone(medium_test_generate_torus_problems(World, scale, gitignored))

CallErProblems ==
    \E scale \in 1..MaxScale :
        /\ CallerGoesOn
        /\ GroupDone(generate_er_problems(World, "out", scale))

CallTorusProblems ==
    \E scale \in 1..MaxScale :
        /\ CallerGoesOn
        /\ GroupDone(generate_torus_problems(World, "out", scale))

CallErXEr ==
    \E scale \in 1..MaxScale :
        /\ CallerGoesOn
        /\ GroupDone(generate_medium_test_er_x_er(World, scale))

NextDrv ==
    \/ MediumTestProblemsEr
    \/ MediumTestProblemsTorus
    \/ MainSeed
    \/ MainUnitTestProblems
    \/ MainErXEr
    \/ CallMediumTestErProblems
    \/ CallMediumTestTorusProblems
    \/ CallErProblems
    \/ CallTorusProblems
    \/ CallErXEr

SpecDrv == InitDrv /\ [][NextDrv]_vars

-----------------------------------------------------------------------------
(* Properties of the drivers. *)

\* C8: every problem group sets the seed before its first draw, nothing drawn
\* in between, so that its matrices depend on its own parameters only: two
\* groups made by the same generator with the same scale have the same
\* matrices, whatever was generated before them.
EveryGroupReseedsBeforeItsFirstDraw ==
    /\ \A i \in 1..Len(log) :
          log[i].first_draw.seeded /\ log[i].first_draw.draws = <<>>
    /\ \A i, j \in 1..Len(log) :
          (log[i].fn = log[j].fn /\ log[i].scale = log[j].scale) =>
              log[i].matrices = log[j].matrices

RECURSIVE Flatten(_)
\* the concatenation of a sequence of sequences
Flatten(ss) == IF ss = <<>> THEN <<>> ELSE Head(ss) \o Flatten(Tail(ss))

\* the problems of the run so far, each with its group's scale and flag
ProblemsOf(groups) ==
    Flatten([i \in 1..Len(groups) |->
                [k \in 1..Len(groups[i].problems) |->
                    [dirname |-> groups[i].problems[k].dirname,
                     written |-> groups[i].problems[k].written,
                     scale |-> groups[i].scale,
                     gitignored |-> groups[i].gitignored]]])

\* the name of a problem directory under the medium-test directory
NameUnder(dirname) ==
    SubSeq(dirname, Len(medium_test_multiply_matrix_dir) + 2, Len(dirname))

HasMarker(name) == Len(name) >= 13 /\ SubSeq(name, 1, 13) = "gitignored - "

\* C10: in a run of generate_medium_test_problems the problem directories are
\* pairwise distinct and no file is written twice; a problem's name has the
\* 'gitignored - ' prefix exactly when its group was generated with
\* gitignored=True, which are the groups of the scales 10, 20 and 50 and not
\* those of the scales 5 (ER) and 4 (torus).
MediumTestProblemNamesAreDistinct ==
    call.fn = "generate_medium_test_problems" =>
        LET ps == ProblemsOf(log)
            ws == Flatten([i \in 1..Len(ps) |-> ps[i].written])
        IN /\ \A i, j \in 1..Len(ps) : ps[i].dirname = ps[j].dirname => i = j
           /\ \A i, j \in 1..Len(ws) : ws[i] = ws[j] => i = j
           /\ \A i \in 1..Len(ps) :
                 /\ ps[i].dirname \in dirs
                 /\ HasMarker(NameUnder(ps[i].dirname)) <=> ps[i].gitignored
                 /\ ps[i].gitignored <=> ps[i].scale \in {10, 20, 50}
                 /\ ~ps[i].gitignored <=> ps[i].scale \in {5, 4}
           /\ call.pc = 5 => Len(ps) = 18

\* C10 happens: the run is complete, with its 18 problems, among them the
\* unmarked ER problem of scale 5 and the marked one of scale 10.
MediumTestProblemsWitness ==
    /\ call.fn = "generate_medium_test_problems" /\ call.pc = 5
    /\ Len(ProblemsOf(log)) = 18
    /\ join(medium_test_multiply_matrix_dir, "ER squared scale 5") \in dirs
    /\ join(medium_test_multiply_matrix_dir, "gitignored - ER squared scale 10") \in dirs
    /\ join(medium_test_multiply_matrix_dir, "ER squared scale 10") \notin dirs

=============================================================================
